---- MODULE Spec2Model ----
(***************************************************************************)
(* PDF processing service (services/pdf-processor/main.py).                *)
(*                                                                         *)
(* PDFProcessor.extract_pdf_content is modelled statement group by         *)
(* statement group; the PyMuPDF decoder is the environment: what it        *)
(* returns (page count, page text, image catalog, block tree, pixmaps) and *)
(* where it raises are chosen nondeterministically.  The POST /extract     *)
(* handler and the two pure helpers are modelled on top of it.             *)
(*                                                                         *)
(* Text is a sequence of one-character strings.  A Python dict whose key   *)
(* set varies is a function from the keys that are present.                *)
(***************************************************************************)
EXTENDS Integers, Sequences, FiniteSets, TLC

\* ---------------------------------------------------------------- bounds
MaxPages == 2        \* pages of a document
MaxImages == 2       \* image catalog entries of a document
MaxBlocks == 2       \* blocks of a page's structured text tree
MaxNameLen == 5      \* characters of an uploaded file name
FlagBits == 7        \* width of the font flag words that are enumerated
MaxHighByte == 2     \* largest value of the bits above bit 23 of a color

\* ------------------------------------------------------- decoder's values
None == "None"

Whitespace == {" ", "\n", "\t"}

\* what page.get_text() may return
RawTexts == { <<>>, <<" ">>, <<"a">>, <<" ", "b", "\n">> }

\* str(e) of the exceptions the decoder raises
ErrMsgs == {"", "cannot open broken document"}

\* doc.metadata: a dict that holds some of the keys the result reads
DocMetadata == [title |-> "T", author |-> "A", creationDate |-> "D:2024"]

\* sizes of the byte buffers handed to the extractor
BodySizes == {0, 3}

\* The documents explored carry images only when they are scans, every page
\* of which has this text; a document with other page texts has no image.
ScanText == <<"a">>

\* ------------------------------------------------------------- variables
VARIABLES
    pc,             \* position in extract_pdf_content
    pdf_bytes,      \* len(pdf_bytes) of the call
    doc,            \* the Document handle: "unopened", "open", "closed"
    doc_page_count, \* decoder: the document's page count
    doc_text,       \* decoder: the raw text returned for each page of this call
    metadata, page_count, page_num, pages_text,
    images_info, image_list,
    blocks,         \* blocks["blocks"] of the image loop's current page
    image_blocks, img_index,
    pix,            \* local pix: None or the xref of the Pixmap it refers to
    pixmaps,        \* decoder: per image of this call, what fitz.Pixmap and its
                    \* accessors did (the decoder's record is dropped when the
                    \* call fails)
    exc,            \* str(e) of the exception raised inside the try, or None
    result,         \* the returned dict, or None
    raised,         \* TRUE when the call ended by raising to its caller
    hpc,            \* position in the /extract handler
    upload,         \* request.files.get('file')
    status,         \* HTTP status of the response, 0 while there is none
    body,           \* the response body
    calls,          \* number of extract_pdf_content invocations
    flags, font_properties,
    color,          \* the argument of color_to_hex
    color_hex       \* its result, <<>> while there is none

extractorVars == << pc, pdf_bytes, doc, doc_page_count, doc_text, metadata,
                    page_count, page_num, pages_text, images_info, image_list,
                    blocks, image_blocks, img_index, pix, pixmaps, exc, result, raised >>
handlerVars == << hpc, upload, status, body, calls >>
pureVars == << flags, font_properties, color, color_hex >>
vars == << extractorVars, handlerVars, pureVars >>

\* ------------------------------------------------------------ dict helpers
\* d.get(k, default)
Get(d, k, default) == IF k \in DOMAIN d THEN d[k] ELSE default

\* d[k] = v
Put(d, k, v) == [x \in (DOMAIN d) \cup {k} |-> IF x = k THEN v ELSE d[x]]

\* ------------------------------------------------------------ str helpers
RECURSIVE lstrip(_)
lstrip(s) == IF s = <<>> THEN s
             ELSE IF Head(s) \in Whitespace THEN lstrip(Tail(s)) ELSE s

RECURSIVE rstrip(_)
rstrip(s) == IF s = <<>> THEN s
             ELSE IF s[Len(s)] \in Whitespace THEN rstrip(SubSeq(s, 1, Len(s) - 1))
             ELSE s

\* str.strip()
strip(s) == rstrip(lstrip(s))

\* sep.join(xs)
RECURSIVE join(_, _)
join(sep, xs) == IF xs = <<>> THEN <<>>
                 ELSE IF Len(xs) = 1 THEN xs[1]
                 ELSE xs[1] \o sep \o join(sep, Tail(xs))

\* [page["text"] for page in pages]
Texts(pages) == [i \in 1..Len(pages) |-> pages[i].text]

\* ------------------------------------------------------ the decoder's data
NoPix == 0          \* pix is unbound or None
Pending == [pending |-> TRUE]   \* the call has not returned a dict

\* block k of page.get_text("dict")["blocks"]: kind 0 is a text block (it
\* has "lines"), kind 1 an image block
Block(kind, k) ==
    IF kind = 1
    THEN [type |-> 1, bbox |-> <<10 * k, 0, 10 * k + 5, 5>>,
          transform |-> <<1, 0, 0, 1, 10 * k, 0>>]
    ELSE [type |-> 0, bbox |-> <<10 * k, 0, 10 * k + 5, 5>>, lines |-> <<>>]

KindLists == UNION { [1..n -> {0, 1}] : n \in 0..MaxBlocks }

Blocks(kinds) == [k \in 1..Len(kinds) |-> Block(kinds[k], k)]

\* entry k of page.get_images() on page p (0-based, as page_num and
\* img_index): (xref, smask, width, height, bpc, colorspace, alt, name, filter)
CatalogImage(p, k) ==
    LET xref == 10 * (p + 1) + k + 1
    IN  << xref, 0, 100 + xref, 200 + xref, 8, "DeviceRGB", "", "Im", "DCTDecode" >>

Catalog(p, n) == [k \in 1..n |-> CatalogImage(p, k - 1)]

RGB == [n |-> 3, alpha |-> 0, width |-> 64, height |-> 48,
        colorspace |-> "DeviceRGB", nbytes |-> 9216]
MASK == [n |-> 1, alpha |-> 1, width |-> 32, height |-> 16,
         colorspace |-> None, nbytes |-> 512]
CMYK == [n |-> 4, alpha |-> 0, width |-> 80, height |-> 60,
         colorspace |-> "DeviceCMYK", nbytes |-> 19200]

\* what the decoder does for one image: fail names the call that raises
\* ("create": fitz.Pixmap, "colorspace": pix.colorspace.name, "tobytes":
\* pix.tobytes()) or is "none"
PixOutcomes ==
    {[fail |-> "create"]}
    \cup {[fail |-> f, pixmap |-> RGB] : f \in {"none", "colorspace", "tobytes"}}
    \cup {[fail |-> "none", pixmap |-> MASK], [fail |-> "none", pixmap |-> CMYK]}

\* ----------------------------------------------------- extract_pdf_content
PageRecordZeroBased(num, text) ==
    [page_number |-> num, text |-> strip(text), char_count |-> Len(text)]

\* the page record appended to pages_text (text_blocks, the span tree, and
\* page_dimensions are not modelled)
PageRecord(num, text) ==
    [page_number |-> num + 1, text |-> strip(text), char_count |-> Len(text)]

ImageBlocksUnfiltered(blks) == blks

\* [block for block in blks if block.get("type") == 1]
ImageBlocks(blks) == SelectSeq(blks, LAMBDA b : Get(b, "type", None) = 1)

BaseImgInfo(num, index, img) ==
    [page_number |-> num + 1, image_index |-> index,
     xref |-> img[1], smask |-> img[2], width |-> img[3], height |-> img[4],
     bpc |-> img[5], colorspace |-> img[6], alt |-> img[7], name |-> img[8],
     filter |-> img[9],
     bbox |-> <<0, 0, 0, 0>>, transform |-> None, size_bytes |-> 0]

Positioned(info, index, blks) ==
    IF index < Len(blks)
    THEN LET img_block == blks[index + 1]
         IN  [info EXCEPT !.bbox = Get(img_block, "bbox", <<0, 0, 0, 0>>),
                          !.transform = Get(img_block, "transform", None)]
    ELSE info

\* the except branch of the pixmap try
PixFallback(info, img) ==
    Put(Put(info, "actual_width", img[3]), "actual_height", img[4])

\* the pixmap try/except, statement by statement, under decoder outcome o
WithPixmap(info, img, o) ==
    IF o.fail = "create" THEN PixFallback(info, img)
    ELSE LET p == o.pixmap IN
         IF p.n - p.alpha < 4
         THEN LET s1 == Put(Put(info, "actual_width", p.width),
                            "actual_height", p.height)
                  s2 == Put(s1, "colorspace_details",
                            IF p.colorspace # None THEN p.colorspace ELSE "Unknown")
              IN  IF o.fail = "colorspace" THEN PixFallback(s1, img)
                  ELSE IF o.fail = "tobytes" THEN PixFallback(s2, img)
                  ELSE [s2 EXCEPT !.size_bytes = p.nbytes]
         ELSE info

\* what the local pix refers to after the pixmap try/except
PixAfter(old, img, o) ==
    IF o.fail = "create" THEN old
    ELSE IF o.fail = "none" THEN NoPix
    ELSE img[1]

FullTextUnfiltered(pages) ==
    join(<<"\n", "\n">>, Texts(pages))

FullText(pages) ==
    join(<<"\n", "\n">>,
         Texts(SelectSeq(pages, LAMBDA page : page.text # <<>>)))

SuccessResult(md, count, pages, images) ==
    LET full_text == FullText(pages)
    IN  [success |-> TRUE,
         metadata |-> [title |-> Get(md, "title", ""),
                       author |-> Get(md, "author", ""),
                       subject |-> Get(md, "subject", ""),
                       creator |-> Get(md, "creator", ""),
                       producer |-> Get(md, "producer", ""),
                       creation_date |-> Get(md, "creationDate", ""),
                       modification_date |-> Get(md, "modDate", ""),
                       page_count |-> count],
         content |-> [full_text |-> full_text,
                      pages |-> pages,
                      total_chars |-> Len(full_text),
                      images_count |-> Len(images)],
         images |-> images,
         layout_info |-> [has_positioning_data |-> TRUE,
                          font_flags_decoded |-> TRUE]]

ExceptBranchReraises(msg) ==
    [raises |-> TRUE, value |-> Pending]

\* the except branch: what the call does with exception message msg
ExceptBranch(msg) ==
    [raises |-> FALSE,
     value |-> [success |-> FALSE, error |-> "Failed to process PDF: " \o msg]]

\* the document handle after the except branch
DocAfterExcept(handle) == handle

\* the frame of the call is gone: its locals no longer exist
FrameDropped ==
    /\ metadata' = <<>>
    /\ page_count' = 0
    /\ page_num' = 0
    /\ pages_text' = <<>>
    /\ images_info' = <<>>
    /\ image_list' = <<>>
    /\ blocks' = <<>>
    /\ image_blocks' = <<>>
    /\ img_index' = 0
    /\ pix' = NoPix

ExtractorInit ==
    /\ pc = "idle"
    /\ pdf_bytes = 0
    /\ doc = "unopened"
    /\ doc_page_count = 0
    /\ doc_text = <<>>
    /\ metadata = <<>>
    /\ page_count = 0
    /\ page_num = 0
    /\ pages_text = <<>>
    /\ images_info = <<>>
    /\ image_list = <<>>
    /\ blocks = <<>>
    /\ image_blocks = <<>>
    /\ img_index = 0
    /\ pix = NoPix
    /\ pixmaps = <<>>
    /\ exc = None
    /\ result = Pending
    /\ raised = FALSE

\* PDFProcessor.extract_pdf_content(pdf_bytes) is called directly
Call ==
    /\ pc = "idle"
    /\ hpc = "none"
    /\ \E size \in BodySizes : pdf_bytes' = size
    /\ pc' = "open"
    /\ calls' = calls + 1
    /\ UNCHANGED << doc, doc_page_count, doc_text, metadata, page_count, page_num,
                    pages_text, images_info, image_list, blocks, image_blocks, img_index,
                    pix, pixmaps, exc, result, raised >>
    /\ UNCHANGED << hpc, upload, status, body >>
    /\ UNCHANGED pureVars

\* doc = fitz.open("pdf", pdf_bytes); the decoder accepts no empty buffer
Open ==
    /\ pc = "open"
    /\ pdf_bytes > 0
    /\ \E n \in 0..MaxPages : doc_page_count' = n
    /\ doc' = "open"
    /\ pc' = "metadata"
    /\ UNCHANGED << pdf_bytes, doc_text, metadata, page_count, page_num, pages_text,
                    images_info, image_list, blocks, image_blocks, img_index, pix, pixmaps,
                    exc, result, raised >>
    /\ UNCHANGED << handlerVars, pureVars >>

\* metadata = doc.metadata; page_count = doc.page_count; pages_text = []
ReadMetadata ==
    /\ pc = "metadata"
    /\ metadata' = DocMetadata
    /\ page_count' = doc_page_count
    /\ pages_text' = <<>>
    /\ page_num' = 0
    /\ pc' = "pages"
    /\ UNCHANGED << pdf_bytes, doc, doc_page_count, doc_text, images_info, image_list,
                    blocks, image_blocks, img_index, pix, pixmaps, exc, result, raised >>
    /\ UNCHANGED << handlerVars, pureVars >>

\* one iteration of the first page loop
ExtractPage ==
    /\ pc = "pages"
    /\ page_num < page_count
    /\ \E text \in RawTexts :
          /\ doc_text' = Append(doc_text, text)
          /\ pages_text' = Append(pages_text, PageRecord(page_num, text))
    /\ page_num' = page_num + 1
    /\ UNCHANGED << pc, pdf_bytes, doc, doc_page_count, metadata, page_count,
                    images_info, image_list, blocks, image_blocks, img_index, pix, pixmaps,
                    exc, result, raised >>
    /\ UNCHANGED << handlerVars, pureVars >>

\* the first page loop ends; images_info = []
PagesDone ==
    /\ pc = "pages"
    /\ page_num = page_count
    /\ images_info' = <<>>
    /\ page_num' = 0
    /\ pc' = "images"
    /\ UNCHANGED << pdf_bytes, doc, doc_page_count, doc_text, metadata, page_count,
                    pages_text, image_list, blocks, image_blocks, img_index, pix, pixmaps,
                    exc, result, raised >>
    /\ UNCHANGED << handlerVars, pureVars >>

\* head of one iteration of the second page loop: image_list and image_blocks
\* (the pages explored without a catalog entry have no block either)
EnumerateImages ==
    /\ pc = "images"
    /\ page_num < page_count
    /\ \E n \in 0..(IF \A i \in 1..Len(doc_text) : doc_text[i] = ScanText
                    THEN MaxImages - Len(images_info) ELSE 0) :
          /\ image_list' = Catalog(page_num, n)
          /\ \E kinds \in (IF n = 0 THEN {<<>>} ELSE KindLists) :
                /\ blocks' = Blocks(kinds)
                /\ image_blocks' = ImageBlocks(Blocks(kinds))
    /\ img_index' = 0
    /\ pc' = "image"
    /\ UNCHANGED << pdf_bytes, doc, doc_page_count, doc_text, metadata, page_count,
                    page_num, pages_text, images_info, pix, pixmaps, exc, result,
                    raised >>
    /\ UNCHANGED << handlerVars, pureVars >>

\* one iteration of the image loop
ProcessImage ==
    /\ pc = "image"
    /\ img_index < Len(image_list)
    /\ LET img == image_list[img_index + 1]
           img_info == Positioned(BaseImgInfo(page_num, img_index, img),
                                  img_index, image_blocks)
       IN  \E o \in PixOutcomes :
              /\ images_info' = Append(images_info, WithPixmap(img_info, img, o))
              /\ pix' = PixAfter(pix, img, o)
              /\ pixmaps' = Append(pixmaps, o)
    /\ img_index' = img_index + 1
    /\ UNCHANGED << pc, pdf_bytes, doc, doc_page_count, doc_text, metadata, page_count,
                    page_num, pages_text, image_list, blocks, image_blocks, exc, result,
                    raised >>
    /\ UNCHANGED << handlerVars, pureVars >>

\* the image loop of a page ends
ImagesOfPageDone ==
    /\ pc = "image"
    /\ img_index = Len(image_list)
    /\ page_num' = page_num + 1
    /\ pc' = "images"
    /\ UNCHANGED << pdf_bytes, doc, doc_page_count, doc_text, metadata, page_count,
                    pages_text, images_info, image_list, blocks, image_blocks, img_index, pix,
                    pixmaps, exc, result, raised >>
    /\ UNCHANGED << handlerVars, pureVars >>

\* the second page loop ends
ImagesDone ==
    /\ pc = "images"
    /\ page_num = page_count
    /\ pc' = "close"
    /\ UNCHANGED << pdf_bytes, doc, doc_page_count, doc_text, metadata, page_count,
                    page_num, pages_text, images_info, image_list, blocks, image_blocks,
                    img_index, pix, pixmaps, exc, result, raised >>
    /\ UNCHANGED << handlerVars, pureVars >>

\* doc.close(); full_text = ...; return {...}
CloseAndReturn ==
    /\ pc = "close"
    /\ doc' = "closed"
    /\ result' = SuccessResult(metadata, page_count, pages_text, images_info)
    /\ pc' = "returned"
    /\ FrameDropped
    /\ UNCHANGED << pdf_bytes, doc_page_count, doc_text, pixmaps, exc, raised >>
    /\ UNCHANGED << handlerVars, pureVars >>

\* a statement of the try body raises Exception(msg): the except branch runs
Raise ==
    /\ pc \in {"open", "metadata", "pages", "images", "image", "close"}
    /\ \E msg \in ErrMsgs :
          /\ exc' = msg
          /\ raised' = ExceptBranch(msg).raises
          /\ result' = IF ExceptBranch(msg).raises THEN Pending
                       ELSE ExceptBranch(msg).value
    /\ doc' = DocAfterExcept(doc)
    /\ pc' = "returned"
    /\ FrameDropped
    /\ doc_page_count' = 0
    /\ doc_text' = <<>>
    /\ pixmaps' = <<>>
    /\ UNCHANGED pdf_bytes
    /\ UNCHANGED << handlerVars, pureVars >>

ExtractorNext ==
    \/ Open
    \/ ReadMetadata
    \/ ExtractPage
    \/ PagesDone
    \/ EnumerateImages
    \/ ProcessImage
    \/ ImagesOfPageDone
    \/ ImagesDone
    \/ CloseAndReturn
    \/ Raise

\* ------------------------------------------------------- POST /extract
\* the characters an uploaded file name is made of
NameChars == {".", "p", "P", "d", "f"}

FileNames == UNION { [1..n -> NameChars] : n \in 0..MaxNameLen }

\* request.files.get('file'): None or a FileUpload
NoUpload == [missing |-> TRUE]
\* a FileUpload has a body of size bytes, or a file whose read() raises
Uploads == {NoUpload}
           \cup [filename : FileNames, size : BodySizes]
           \cup [filename : FileNames, unreadable : {TRUE}]

LowerChar(c) ==
    CASE c = "P" -> "p"
      [] c = "D" -> "d"
      [] c = "F" -> "f"
      [] OTHER -> c

\* str.lower()
lower(s) == [i \in 1..Len(s) |-> LowerChar(s[i])]

\* str.endswith(suffix)
endswith(s, suffix) ==
    /\ Len(s) >= Len(suffix)
    /\ SubSeq(s, Len(s) - Len(suffix) + 1, Len(s)) = suffix

HTTPError(code, msg) == [type |-> "HTTPError", status |-> code, message |-> msg]

\* the try body of extract_pdf up to the call of the extractor, for upload u:
\* the exception it raises, if any
Validate(u) ==
    IF u = NoUpload
    THEN HTTPError(400, "No file uploaded. Please provide a PDF file in 'file' field.")
    ELSE IF ~endswith(lower(u.filename), <<".", "p", "d", "f">>)
    THEN HTTPError(400, "Invalid file type. Only PDF files are supported.")
    ELSE IF "size" \notin DOMAIN u
    THEN [type |-> "Exception", message |-> "read failed"]
    ELSE IF u.size = 0
    THEN HTTPError(400, "Empty file uploaded.")
    ELSE [type |-> "none"]

CatchEverything(e) ==
    HTTPError(500, "Internal server error: " \o e.message)

\* the except clauses of extract_pdf
Catch(e) ==
    IF e.type = "HTTPError" THEN e
    ELSE HTTPError(500, "Internal server error: " \o e.message)

\* json.dumps(result, indent=2): the document is kept as the value it encodes
JsonDumps(value) == [json |-> value]

RespondErrorOnFailure(call_raised, call_exc, call_result) ==
    IF call_raised \/ ~call_result.success
    THEN HTTPError(500, "Internal server error: " \o call_exc)
    ELSE [type |-> "none", status |-> 200, body |-> JsonDumps(call_result)]

\* the tail of the try body of extract_pdf, after the extractor has ended
Respond(call_raised, call_exc, call_result) ==
    IF call_raised
    THEN Catch([type |-> "Exception", message |-> call_exc])
    ELSE [type |-> "none", status |-> 200, body |-> JsonDumps(call_result)]

\* a POST /extract request arrives
ReceiveRequest ==
    /\ hpc = "waiting"
    /\ \E u \in Uploads : upload' = u
    /\ hpc' = "received"
    /\ UNCHANGED << status, body, calls >>
    /\ UNCHANGED << extractorVars, pureVars >>

\* extract_pdf up to the call of PDFProcessor.extract_pdf_content.  The
\* handler only logs upload.filename after this point, so the accepted
\* upload is not kept.
ExtractPdfValidate ==
    /\ hpc = "received"
    /\    LET e == Validate(upload)
          IN  IF e.type = "none"
              THEN /\ pdf_bytes' = upload.size
                   /\ pc' = "open"
                   /\ calls' = calls + 1
                   /\ hpc' = "calling"
                   /\ upload' = NoUpload
                   /\ UNCHANGED << status, body >>
              ELSE /\ status' = Catch(e).status
                   /\ body' = [text |-> Catch(e).message]
                   /\ hpc' = "responded"
                   /\ UNCHANGED << pdf_bytes, pc, calls, upload >>
    /\ UNCHANGED << doc, doc_page_count, doc_text, metadata, page_count, page_num,
                    pages_text, images_info, image_list, blocks, image_blocks, img_index,
                    pix, pixmaps, exc, result, raised >>
    /\ UNCHANGED pureVars

\* extract_pdf after PDFProcessor.extract_pdf_content has ended
ExtractPdfRespond ==
    /\ hpc = "calling"
    /\ pc = "returned"
    /\ LET r == Respond(raised, exc, result)
       IN  /\ status' = r.status
           /\ body' = IF r.type = "none" THEN r.body ELSE [text |-> r.message]
    /\ hpc' = "responded"
    /\ UNCHANGED << upload, calls >>
    /\ UNCHANGED << extractorVars, pureVars >>

\* -------------------------------------------------------- pure helpers
\* a % 2**k for k = 1, and the exact half of what is left: Python's >> 1
Half(a) == (a - (a % 2)) \div 2

\* a & b for b >= 0, over two's complement integers of any size
RECURSIVE BitAnd(_, _)
BitAnd(a, b) ==
    IF b = 0 THEN 0
    ELSE (a % 2) * (b % 2) + 2 * BitAnd(Half(a), Half(b))

\* bool(n)
bool(n) == n # 0

decode_font_flags_bold_2x4(f) ==
    [superscript |-> bool(BitAnd(f, 2^0)),
     italic |-> bool(BitAnd(f, 2^1)),
     serifed |-> bool(BitAnd(f, 2^2)),
     monospaced |-> bool(BitAnd(f, 2^3)),
     bold |-> bool(BitAnd(f, 2 * 4))]

decode_font_flags(f) ==
    [superscript |-> bool(BitAnd(f, 2^0)),
     italic |-> bool(BitAnd(f, 2^1)),
     serifed |-> bool(BitAnd(f, 2^2)),
     monospaced |-> bool(BitAnd(f, 2^3)),
     bold |-> bool(BitAnd(f, 2^4))]

\* the flag words that are decoded: FlagBits bits and a sign
FlagWords == (0 - 2^FlagBits)..(2^FlagBits - 1)

DecodeFontFlags ==
    /\ font_properties = Pending
    /\ font_properties' = decode_font_flags(flags)
    /\ UNCHANGED << flags, color, color_hex >>
    /\ UNCHANGED << extractorVars, handlerVars >>

\* a >> k
ShiftRight(a, k) == (a - (a % 2^k)) \div 2^k

HexDigits == << "0", "1", "2", "3", "4", "5", "6", "7",
               "8", "9", "a", "b", "c", "d", "e", "f" >>

\* format(n, "x") for n >= 0
RECURSIVE FormatHex(_)
FormatHex(n) ==
    IF n < 16 THEN << HexDigits[n + 1] >>
    ELSE FormatHex(n \div 16) \o << HexDigits[(n % 16) + 1] >>

\* format(n, "02x"): zero-padded to at least two characters
Format02x(n) ==
    IF Len(FormatHex(n)) < 2 THEN <<"0">> \o FormatHex(n) ELSE FormatHex(n)

color_to_hex_unpadded(c) ==
    IF c = 0 THEN <<"#", "0", "0", "0", "0", "0", "0">>
    ELSE LET r == BitAnd(ShiftRight(c, 16), 255)
             g == BitAnd(ShiftRight(c, 8), 255)
             b == BitAnd(c, 255)
         IN  <<"#">> \o FormatHex(r) \o FormatHex(g) \o FormatHex(b)

color_to_hex(c) ==
    IF c = 0 THEN <<"#", "0", "0", "0", "0", "0", "0">>
    ELSE LET r == BitAnd(ShiftRight(c, 16), 255)
             g == BitAnd(ShiftRight(c, 8), 255)
             b == BitAnd(c, 255)
         IN  <<"#">> \o Format02x(r) \o Format02x(g) \o Format02x(b)

\* the values a color channel takes in the colors that are converted
ChannelValues == {0, 1, 9, 10, 15, 16, 127, 128, 171, 255}

\* the colors that are converted: three channels below a high part of either
\* sign
Colors ==
    { ((h * 256 + r) * 256 + g) * 256 + b :
        h \in (0 - MaxHighByte)..MaxHighByte,
        r \in ChannelValues, g \in ChannelValues, b \in ChannelValues }

ColorToHex ==
    /\ color_hex = <<>>
    /\ color_hex' = color_to_hex(color)
    /\ UNCHANGED << flags, font_properties, color >>
    /\ UNCHANGED << extractorVars, handlerVars >>

\* ------------------------------------------------------- specifications
HandlerIdle ==
    /\ upload = NoUpload
    /\ status = 0
    /\ body = Pending
    /\ calls = 0

PureIdle ==
    /\ flags = 0
    /\ font_properties = Pending
    /\ color = 0
    /\ color_hex = <<>>

\* PDFProcessor.extract_pdf_content called directly, as the tests do
Init == ExtractorInit /\ hpc = "none" /\ HandlerIdle /\ PureIdle

Next == Call \/ ExtractorNext

Spec == Init /\ [][Next]_vars

\* the service: one POST /extract request
InitHttp == ExtractorInit /\ hpc = "waiting" /\ HandlerIdle /\ PureIdle

NextHttp == ReceiveRequest \/ ExtractPdfValidate \/ ExtractPdfRespond \/ ExtractorNext

SpecHttp == InitHttp /\ [][NextHttp]_vars

\* the pure helpers applied to one flag word or to one color
InitPure ==
    /\ ExtractorInit /\ hpc = "none" /\ HandlerIdle
    /\ \/ flags \in FlagWords /\ color = 0
       \/ flags = 0 /\ color \in Colors
    /\ font_properties = Pending
    /\ color_hex = <<>>

NextPure == DecodeFontFlags \/ ColorToHex

SpecPure == InitPure /\ [][NextPure]_vars

\* ================================================================ claims
Returned == pc = "returned"
Succeeded == pc = "returned" /\ exc = None /\ ~raised
Failed == pc = "returned" /\ exc # None

\* C1: extract_pdf_content never raises to its caller: when a step of the try
\* body raised, the call returns the failure variant, a dict with exactly the
\* keys success and error, success false, and error the non-empty string
\* "Failed to process PDF: " followed by the message of the exception; no
\* metadata, content or images.
C1_FailureVariant ==
    /\ Returned => ~raised
    /\ Failed =>
          /\ DOMAIN result = {"success", "error"}
          /\ result.success = FALSE
          /\ result.error = "Failed to process PDF: " \o exc
          /\ result.error # ""

\* a step after a successful open raised and the call has returned
C1_Witness ==
    /\ Failed
    /\ doc = "open"
    /\ exc = "cannot open broken document"
    /\ "error" \in DOMAIN result

\* C2: the Document handle opened by extract_pdf_content is closed before the
\* call returns, on the success path and on the failure path.
C2_HandleClosedOnReturn == Returned => doc # "open"

\* C3: a document of N pages extracted successfully has N entries in
\* content.pages, entry i has page_number i, and metadata.page_count = N.
C3_PageNumbering ==
    Succeeded =>
        /\ Len(result.content.pages) = doc_page_count
        /\ \A i \in 1..Len(result.content.pages) :
              result.content.pages[i].page_number = i
        /\ result.metadata.page_count = doc_page_count

\* a document of at least two pages was extracted
C3_Witness ==
    /\ Succeeded
    /\ doc_page_count >= 2
    /\ Len(result.content.pages) >= 2

\* the text of s without its leading and trailing whitespace, by position
Trimmed(s) ==
    LET inked == { i \in 1..Len(s) : s[i] \notin Whitespace }
    IN  IF inked = {} THEN <<>>
        ELSE SubSeq(s, CHOOSE i \in inked : \A j \in inked : i <= j,
                       CHOOSE i \in inked : \A j \in inked : j <= i)

\* the full text of the first n pages of the decoder's texts: each page with
\* ink adds its trimmed text, after a blank line when text precedes it
RECURSIVE ExpectedFullText(_, _)
ExpectedFullText(texts, n) ==
    IF n = 0 THEN <<>>
    ELSE LET before == ExpectedFullText(texts, n - 1)
             here == Trimmed(texts[n])
         IN  IF here = <<>> THEN before
             ELSE IF before = <<>> THEN here
             ELSE before \o <<"\n", "\n">> \o here

\* C4: content.full_text is the trimmed texts of the pages whose trimmed text
\* is non-empty, in page order, joined by "\n\n"; a page whose trimmed text is
\* empty adds neither a segment nor a separator.
C4_FullText ==
    Succeeded =>
        result.content.full_text = ExpectedFullText(doc_text, Len(doc_text))

\* a whitespace-only page followed by a page with text around whitespace
C4_Witness ==
    /\ Succeeded
    /\ doc_text = << <<" ">>, <<" ", "b", "\n">> >>
    /\ result.content.full_text = <<"b">>

\* the positions in blks of the image-typed blocks (type code 1)
ImagePositions(blks) == { k \in 1..Len(blks) : blks[k].type = 1 }

\* the i-th (0-based) image-typed block of blks
NthImageBlock(blks, i) ==
    blks[CHOOSE k \in ImagePositions(blks) :
            Cardinality({ j \in ImagePositions(blks) : j < k }) = i]

\* the descriptors built so far for the page the image loop is on
DescriptorsOfPage == SubSeq(images_info, Len(images_info) - img_index + 1,
                            Len(images_info))

\* each descriptor of the current page is positioned as the claim says
C5_Positioned ==
    pc = "image" =>
        \A i \in 0..(img_index - 1) :
            LET img == DescriptorsOfPage[i + 1]
            IN  /\ img.image_index = i
                /\ img.page_number = page_num + 1
                /\ IF i < Cardinality(ImagePositions(blocks))
                   THEN /\ img.bbox = NthImageBlock(blocks, i).bbox
                        /\ img.transform = NthImageBlock(blocks, i).transform
                   ELSE /\ img.bbox = <<0, 0, 0, 0>>
                        /\ img.transform = None

\* a descriptor, once built, reaches the result as it was built
C5_Kept ==
    /\ (pc \in {"images", "image"} /\ pc' \in {"images", "image", "close"})
          => /\ Len(images_info') >= Len(images_info)
             /\ SubSeq(images_info', 1, Len(images_info)) = images_info
    /\ (pc = "close" /\ pc' = "returned" /\ exc' = None)
          => result'.images = images_info

\* C5: an image at index i of a page's catalog takes bbox and transform from
\* the i-th image-typed block of the page when the page has more than i such
\* blocks; otherwise its bbox is [0,0,0,0] and its transform is null; the
\* result reports the descriptor so built.
C5_PositionalCorrelation == [](C5_Positioned) /\ [][C5_Kept]_vars

\* a page with two catalog entries, a text block and then one image block:
\* the first image is positioned from the image block, the second is not
C5_Witness ==
    /\ pc = "image"
    /\ img_index = 2
    /\ blocks = Blocks(<<0, 1>>)
    /\ DescriptorsOfPage[1].bbox = Block(1, 2).bbox
    /\ DescriptorsOfPage[1].transform = Block(1, 2).transform
    /\ DescriptorsOfPage[2].bbox = <<0, 0, 0, 0>>
    /\ DescriptorsOfPage[2].transform = None

\* what the claim of C6 and C9 calls the catalog-declared size of image img
DeclaredSize(img) == << img.width, img.height >>

\* C6: a failure while creating or reading the pixmap of one image is
\* swallowed for that image: the call still succeeds, every image is
\* reported, and the image's descriptor has the catalog-declared width and
\* height as actual size, size_bytes 0 and colorspace details at the
\* unknown default.
C6_PixmapFailureFallsBack ==
    Succeeded =>
        /\ result.success = TRUE
        /\ Len(result.images) = Len(pixmaps)
        /\ \A j \in 1..Len(pixmaps) :
              pixmaps[j].fail # "none" =>
                  LET img == result.images[j]
                  IN  /\ "actual_width" \in DOMAIN img
                      /\ "actual_height" \in DOMAIN img
                      /\ << img.actual_width, img.actual_height >> = DeclaredSize(img)
                      /\ img.size_bytes = 0
                      /\ Get(img, "colorspace_details", "Unknown") = "Unknown"

\* the upload names a PDF: its name ends in ".pdf", in any case
IsPdfName(name) ==
    /\ Len(name) >= 4
    /\ name[Len(name) - 3] = "."
    /\ name[Len(name) - 2] \in {"p", "P"}
    /\ name[Len(name) - 1] \in {"d", "D"}
    /\ name[Len(name)] \in {"f", "F"}

\* no file field, a name that is not a PDF's, or a zero-byte body
InvalidUpload(u) ==
    \/ u = NoUpload
    \/ ~IsPdfName(u.filename)
    \/ ("size" \in DOMAIN u /\ u.size = 0)

\* C7: POST /extract answers an upload with no file field, with a name that
\* does not end in ".pdf" (case-insensitive) or with a zero-byte body by
\* status 400, without calling extract_pdf_content; the 400 does not become
\* a 500.
C7_InvalidUploadRejected ==
    [][ (hpc = "received" /\ InvalidUpload(upload))
            => (/\ hpc' = "responded"
                /\ status' = 400
                /\ calls' = calls
                /\ pc' = "idle") ]_vars

\* a zero-byte file with a PDF's name was answered by 400
C7_Witness ==
    /\ hpc = "responded"
    /\ status = 400
    /\ calls = 0
    /\ upload # NoUpload
    /\ upload.filename = <<"P", ".", "P", "d", "f">>
    /\ "size" \in DOMAIN upload
    /\ upload.size = 0

\* C8: when the upload passes validation and the extraction fails inside the
\* extractor, POST /extract answers 200 and the body is the failure record
\* (success false, error); neither 400 nor 500.
C8_FailedExtractionIs200 ==
    (hpc = "responded" /\ calls = 1 /\ exc # None) =>
        /\ status = 200
        /\ body = [json |-> [success |-> FALSE,
                             error |-> "Failed to process PDF: " \o exc]]

\* a valid upload whose document opened and then failed was answered
C8_Witness ==
    /\ hpc = "responded"
    /\ calls = 1
    /\ exc # None
    /\ doc = "open"
    /\ status = 200
    /\ "json" \in DOMAIN body
    /\ body.json.success = FALSE

\* C9: every image descriptor of a successful result has actual_width and
\* actual_height: the pixmap's when the pixel buffer was read as gray or RGB,
\* the catalog-declared ones otherwise, also when the pixmap was created
\* without error but has 4 or more channels besides alpha.
C9_ActualSizePresent ==
    Succeeded =>
        \A j \in 1..Len(result.images) :
            LET img == result.images[j]
                o == pixmaps[j]
            IN  /\ "actual_width" \in DOMAIN img
                /\ "actual_height" \in DOMAIN img
                /\ << img.actual_width, img.actual_height >>
                      = IF o.fail = "none" /\ o.pixmap.n - o.pixmap.alpha < 4
                        THEN << o.pixmap.width, o.pixmap.height >>
                        ELSE DeclaredSize(img)

\* bit k of the two's complement integer f is set
BitSet(f, k) == (f % 2^(k + 1)) >= 2^k

\* f | 2**k
WithBit(f, k) == IF BitSet(f, k) THEN f ELSE f + 2^k

\* C10: decode_font_flags is a function of the low five bits of its argument:
\* superscript, italic, serifed, monospaced and bold are true exactly when
\* bits 0, 1, 2, 3 and 4 are set (0: all false, 16: only bold, 31: all
\* true), and setting a bit k >= 5 does not change the result.
C10_FontFlags ==
    font_properties # Pending =>
        /\ DOMAIN font_properties
              = {"superscript", "italic", "serifed", "monospaced", "bold"}
        /\ font_properties.superscript = BitSet(flags, 0)
        /\ font_properties.italic = BitSet(flags, 1)
        /\ font_properties.serifed = BitSet(flags, 2)
        /\ font_properties.monospaced = BitSet(flags, 3)
        /\ font_properties.bold = BitSet(flags, 4)
        /\ flags = 0 => \A key \in DOMAIN font_properties : ~font_properties[key]
        /\ flags = 16 => \A key \in DOMAIN font_properties :
                            font_properties[key] = (key = "bold")
        /\ flags = 31 => \A key \in DOMAIN font_properties : font_properties[key]
        /\ font_properties = decode_font_flags(flags % 32)
        /\ \A k \in 5..(FlagBits + 1) :
              font_properties = decode_font_flags(WithBit(flags, k))

\* 16 | 2**6 was decoded: bold only
C10_Witness ==
    /\ flags = 16 + 2^6
    /\ font_properties # Pending
    /\ font_properties.bold
    /\ ~font_properties.italic

\* the value of a lowercase hexadecimal digit
HexValue(ch) == (CHOOSE d \in 1..16 : HexDigits[d] = ch) - 1

\* the channel of c that starts at bit k, for c of either sign
Channel(c, k) == ((c % 2^24) \div 2^k) % 256

\* C11: color_to_hex returns, for every integer, a string of exactly 7
\* characters, "#" and six lowercase hexadecimal digits that encode bits 16-23
\* as red, 8-15 as green and 0-7 as blue (0: "#000000", 0xFFFFFF: "#ffffff",
\* 0xFF0000: "#ff0000"); a value above 0xFFFFFF gives the result of its low
\* 24 bits.
C11_ColorToHex ==
    color_hex # <<>> =>
        /\ Len(color_hex) = 7
        /\ color_hex[1] = "#"
        /\ \A i \in 2..7 : \E d \in 1..16 : HexDigits[d] = color_hex[i]
        /\ 16 * HexValue(color_hex[2]) + HexValue(color_hex[3]) = Channel(color, 16)
        /\ 16 * HexValue(color_hex[4]) + HexValue(color_hex[5]) = Channel(color, 8)
        /\ 16 * HexValue(color_hex[6]) + HexValue(color_hex[7]) = Channel(color, 0)
        /\ color = 0 => color_hex = <<"#", "0", "0", "0", "0", "0", "0">>
        /\ color = 16777215 => color_hex = <<"#", "f", "f", "f", "f", "f", "f">>
        /\ color = 16711680 => color_hex = <<"#", "f", "f", "0", "0", "0", "0">>
        /\ color > 16777215 => color_hex = color_to_hex(color % 2^24)

\* a color above 0xFFFFFF with a channel below 16 was converted
C11_Witness ==
    /\ color = 2^24 + 10 * 65536 + 255 * 256 + 1
    /\ color_hex = <<"#", "0", "a", "f", "f", "0", "1">>

\* C12: the pixmap of an image is released as soon as it has been read, on
\* every path through the per-image step (read, skipped because it is not
\* gray or RGB, or an exception after it was created): the local pix holds no
\* pixmap when the next image's pixmap is created or when the image loop
\* ends.
C12_PixmapReleased ==
    pc \in {"image", "images", "close"} => pix = NoPix

====
